---- MODULE Spec2Model ----
(***************************************************************************)
(* A model of the nebulus-db wasm engine (packages/wasm/wasm/src):         *)
(* structured values, Document (document.rs), Query (query.rs), Index      *)
(* (index.rs), Collection and Database (lib.rs).                           *)
(*                                                                         *)
(* documents, indexes and collection_name are the fields of the Collection *)
(* the caller holds, collections is the map of the Database, and last is   *)
(* the last call with what it returned.                                    *)
(***************************************************************************)
EXTENDS Integers, Sequences, FiniteSets, TLC

VARIABLES documents, indexes, last, collection_name, collections

vars == <<documents, indexes, last, collection_name, collections>>

-----------------------------------------------------------------------------
(* serde_json::Value.  A number keeps whether it is stored as an integer   *)
(* or as a float: Number equality and to_string distinguish 2 from 2.0.    *)
(* An object is the sequence of its <<key, value>> entries, keys distinct, *)
(* in the iteration order of its map.                                      *)

Null == [t |-> "null"]

Bool(b) == [t |-> "bool", b |-> b]

Num(n) == [t |-> "num", n |-> n, float |-> FALSE]

Flt(n) == [t |-> "num", n |-> n, float |-> TRUE]

Str(s) == [t |-> "str", s |-> s]

Arr(items) == [t |-> "arr", items |-> items]

Obj(pairs) == [t |-> "obj", pairs |-> pairs]

(* Option<&Value> *)
None == [found |-> FALSE]

Some(v) == [found |-> TRUE, value |-> v]

(* Map::get, Map::contains_key, Map::insert and Map::remove on the entries *)
(* of an object.                                                           *)
ObjKeys(pairs) == {pairs[i][1] : i \in 1..Len(pairs)}

ObjGet(pairs, k) ==
    IF k \in ObjKeys(pairs)
    THEN Some(pairs[CHOOSE i \in 1..Len(pairs) : pairs[i][1] = k][2])
    ELSE None

ObjPut(pairs, k, v) ==
    IF k \in ObjKeys(pairs)
    THEN [i \in 1..Len(pairs) |-> IF pairs[i][1] = k THEN <<k, v>> ELSE pairs[i]]
    ELSE Append(pairs, <<k, v>>)

(* PartialEq of Value: objects are equal as maps, whatever their order.    *)
RECURSIVE ValEq(_, _)
ValEq(x, y) ==
    IF x.t = "obj" /\ y.t = "obj"
    THEN /\ ObjKeys(x.pairs) = ObjKeys(y.pairs)
         /\ \A k \in ObjKeys(x.pairs) :
                ValEq(ObjGet(x.pairs, k).value, ObjGet(y.pairs, k).value)
    ELSE IF x.t = "arr" /\ y.t = "arr"
    THEN /\ Len(x.items) = Len(y.items)
         /\ \A i \in 1..Len(x.items) : ValEq(x.items[i], y.items[i])
    ELSE x = y

(* arr.contains(value) *)
ArrContains(items, v) == \E i \in 1..Len(items) : ValEq(items[i], v)

-----------------------------------------------------------------------------
(* HashMap<String, Value>: a function from the keys present to values.     *)

EmptyMap == [k \in {} |-> Null]

MapPut(m, k, v) == [x \in (DOMAIN m) \cup {k} |-> IF x = k THEN v ELSE m[x]]

MapRemove(m, k) == [x \in (DOMAIN m) \ {k} |-> m[x]]

MapGet(m, k) == IF k \in DOMAIN m THEN Some(m[k]) ELSE None

-----------------------------------------------------------------------------
(* Document (document.rs).                                                 *)

Doc(id, data) == [id |-> id, data |-> data]

(* path.split('.') *)
RECURSIVE SplitFrom(_, _, _)
SplitFrom(s, start, i) ==
    IF i > Len(s) THEN <<SubSeq(s, start, Len(s))>>
    ELSE IF SubSeq(s, i, i) = "."
    THEN <<SubSeq(s, start, i - 1)>> \o SplitFrom(s, i + 1, i + 1)
    ELSE SplitFrom(s, start, i + 1)

Split(path) == SplitFrom(path, 1, 1)

(* The walk of Document::get below the first path segment.                 *)
RECURSIVE GetIn(_, _, _)
GetIn(pairs, parts, i) ==
    IF i = Len(parts)
    THEN ObjGet(pairs, parts[i])
    ELSE LET next == ObjGet(pairs, parts[i])
         IN  IF next.found /\ next.value.t = "obj"
             THEN GetIn(next.value.pairs, parts, i + 1)
             ELSE None

(* get looking the id up in data like any other field *)
get_IdFromData(doc, path) ==
    IF Len(Split(path)) = 1 THEN MapGet(doc.data, path)
    ELSE IF MapGet(doc.data, Split(path)[1]).found
            /\ MapGet(doc.data, Split(path)[1]).value.t = "obj"
    THEN GetIn(MapGet(doc.data, Split(path)[1]).value.pairs, Split(path), 2)
    ELSE None

get(doc, path) ==
    IF path = "id"
    THEN Some(Str(doc.id))
    ELSE LET parts == Split(path)
         IN  IF Len(parts) = 1
             THEN MapGet(doc.data, parts[1])
             ELSE LET next == MapGet(doc.data, parts[1])
                  IN  IF next.found /\ next.value.t = "obj"
                      THEN GetIn(next.value.pairs, parts, 2)
                      ELSE None

(* Document::set_value below the first path segment: the entries of the    *)
(* object at segment i after the write.                                    *)
RECURSIVE SetIn(_, _, _, _)
SetIn(pairs, parts, i, value) ==
    IF i = Len(parts)
    THEN ObjPut(pairs, parts[i], value)
    ELSE LET next == ObjGet(pairs, parts[i])
             inner == IF next.found /\ next.value.t = "obj"
                      THEN next.value.pairs
                      ELSE <<>>
         IN  ObjPut(pairs, parts[i], Obj(SetIn(inner, parts, i + 1, value)))

(* set_value giving up where a non-object value is on the first segment *)
set_value_KeepsNonObject(doc, path, value) ==
    IF Len(Split(path)) = 1 THEN Doc(doc.id, MapPut(doc.data, path, value))
    ELSE IF MapGet(doc.data, Split(path)[1]).found
    THEN IF MapGet(doc.data, Split(path)[1]).value.t = "obj"
         THEN Doc(doc.id,
                  MapPut(doc.data, Split(path)[1],
                         Obj(SetIn(MapGet(doc.data, Split(path)[1]).value.pairs,
                                   Split(path), 2, value))))
         ELSE doc
    ELSE Doc(doc.id, MapPut(doc.data, Split(path)[1],
                            Obj(SetIn(<<>>, Split(path), 2, value))))

set_value(doc, path, value) ==
    LET parts == Split(path)
    IN  IF Len(parts) = 1
        THEN Doc(doc.id, MapPut(doc.data, path, value))
        ELSE LET next == MapGet(doc.data, parts[1])
                 inner == IF next.found /\ next.value.t = "obj"
                          THEN next.value.pairs
                          ELSE <<>>
             IN  Doc(doc.id,
                     MapPut(doc.data, parts[1], Obj(SetIn(inner, parts, 2, value))))

(* item_matches: the first recognised operator of an operator object       *)
(* decides; without one the item is compared with the whole query value.   *)
NumCmp(op, x, y) ==
    /\ x.t = "num"
    /\ y.t = "num"
    /\ CASE op = "$gt" -> x.n > y.n
         [] op = "$gte" -> x.n >= y.n
         [] op = "$lt" -> x.n < y.n
         [] op = "$lte" -> x.n <= y.n

ItemOps == {"$eq", "$ne", "$gt", "$gte", "$lt", "$lte", "$in", "$nin"}

ItemOp(item, op, value) ==
    CASE op = "$eq" -> ValEq(item, value)
      [] op = "$ne" -> ~ValEq(item, value)
      [] op \in {"$gt", "$gte", "$lt", "$lte"} -> NumCmp(op, item, value)
      [] op = "$in" -> value.t = "arr" /\ ArrContains(value.items, item)
      [] op = "$nin" -> value.t = "arr" /\ ~ArrContains(value.items, item)

item_matches(item, query) ==
    IF query.t = "obj" /\ \E i \in 1..Len(query.pairs) : query.pairs[i][1] \in ItemOps
    THEN LET first == CHOOSE i \in 1..Len(query.pairs) :
                         /\ query.pairs[i][1] \in ItemOps
                         /\ \A j \in 1..(i - 1) : query.pairs[j][1] \notin ItemOps
         IN  ItemOp(item, query.pairs[first][1], query.pairs[first][2])
    ELSE ValEq(item, query)

(* The result of an operation on a document: Ok(()) or Err, with the       *)
(* document as the call left it.                                           *)
Ok(doc) == [ok |-> TRUE, doc |-> doc]

Err(doc) == [ok |-> FALSE, doc |-> doc]

(* $set writing the id where apply_update returns an error *)
RECURSIVE SetLoop_WritesId(_, _, _)
SetLoop_WritesId(doc, pairs, i) ==
    IF i > Len(pairs) THEN [ok |-> TRUE, doc |-> doc]
    ELSE IF pairs[i][1] = "id"
    THEN SetLoop_WritesId(Doc(pairs[i][2].s, doc.data), pairs, i + 1)
    ELSE SetLoop_WritesId(set_value(doc, pairs[i][1], pairs[i][2]), pairs, i + 1)

(* The five operator loops of Document::apply_update, from entry i on.     *)
RECURSIVE SetLoop(_, _, _)
SetLoop(doc, pairs, i) ==
    IF i > Len(pairs) THEN Ok(doc)
    ELSE IF pairs[i][1] = "id" THEN Err(doc)
    ELSE SetLoop(set_value(doc, pairs[i][1], pairs[i][2]), pairs, i + 1)

(* $unset checking the keys and removing nothing *)
UnsetLoop_RemovesNothing(doc, pairs, i) ==
    IF \E j \in i..Len(pairs) : pairs[j][1] = "id" THEN Err(doc) ELSE Ok(doc)

RECURSIVE UnsetLoop(_, _, _)
UnsetLoop(doc, pairs, i) ==
    IF i > Len(pairs) THEN Ok(doc)
    ELSE IF pairs[i][1] = "id" THEN Err(doc)
    ELSE UnsetLoop(Doc(doc.id, MapRemove(doc.data, pairs[i][1])), pairs, i + 1)

(* $inc adding to 1 where the field is absent *)
RECURSIVE IncLoop_AbsentIsOne(_, _, _)
IncLoop_AbsentIsOne(doc, pairs, i) ==
    IF i > Len(pairs) THEN Ok(doc)
    ELSE IF pairs[i][1] = "id" THEN Err(doc)
    ELSE LET key == pairs[i][1]
             value == pairs[i][2]
             current == IF key \in DOMAIN doc.data THEN doc.data[key] ELSE Num(1)
         IN  IF current.t = "num" /\ value.t = "num"
             THEN IncLoop_AbsentIsOne(
                      Doc(doc.id, MapPut(doc.data, key, Flt(current.n + value.n))),
                      pairs, i + 1)
             ELSE Err(doc)

RECURSIVE IncLoop(_, _, _)
IncLoop(doc, pairs, i) ==
    IF i > Len(pairs) THEN Ok(doc)
    ELSE IF pairs[i][1] = "id" THEN Err(doc)
    ELSE LET key == pairs[i][1]
             value == pairs[i][2]
             current == IF key \in DOMAIN doc.data THEN doc.data[key] ELSE Num(0)
         IN  IF current.t = "num" /\ value.t = "num"
             THEN IncLoop(Doc(doc.id, MapPut(doc.data, key, Flt(current.n + value.n))),
                          pairs, i + 1)
             ELSE Err(doc)

RECURSIVE PushLoop(_, _, _)
PushLoop(doc, pairs, i) ==
    IF i > Len(pairs) THEN Ok(doc)
    ELSE IF pairs[i][1] = "id" THEN Err(doc)
    ELSE LET key == pairs[i][1]
             value == pairs[i][2]
         IN  IF key \notin DOMAIN doc.data
             THEN PushLoop(Doc(doc.id, MapPut(doc.data, key, Arr(<<value>>))),
                           pairs, i + 1)
             ELSE IF doc.data[key].t = "arr"
             THEN PushLoop(Doc(doc.id, MapPut(doc.data, key,
                                              Arr(Append(doc.data[key].items, value)))),
                           pairs, i + 1)
             ELSE Err(doc)

RECURSIVE PullFilter(_, _)
PullFilter(items, value) ==
    IF Len(items) = 0 THEN <<>>
    ELSE IF item_matches(Head(items), value)
    THEN PullFilter(Tail(items), value)
    ELSE <<Head(items)>> \o PullFilter(Tail(items), value)

RECURSIVE PullLoop(_, _, _)
PullLoop(doc, pairs, i) ==
    IF i > Len(pairs) THEN Ok(doc)
    ELSE IF pairs[i][1] = "id" THEN Err(doc)
    ELSE LET key == pairs[i][1]
             value == pairs[i][2]
         IN  IF key \in DOMAIN doc.data /\ doc.data[key].t = "arr"
             THEN PullLoop(Doc(doc.id, MapPut(doc.data, key,
                                              Arr(PullFilter(doc.data[key].items, value)))),
                           pairs, i + 1)
             ELSE PullLoop(doc, pairs, i + 1)

(* update_obj.get(op) when it is Some(Value::Object(_)): its entries.      *)
OpEntries(update, op) ==
    LET g == ObjGet(update.pairs, op)
    IN  IF g.found /\ g.value.t = "obj" THEN g.value.pairs ELSE <<>>

(* Each operator block runs only when the blocks before it returned no    *)
(* error; r is the result so far.                                          *)
ThenUnset(r, update) ==
    IF r.ok THEN UnsetLoop(r.doc, OpEntries(update, "$unset"), 1) ELSE r

ThenInc(r, update) ==
    IF r.ok THEN IncLoop(r.doc, OpEntries(update, "$inc"), 1) ELSE r

ThenPush(r, update) ==
    IF r.ok THEN PushLoop(r.doc, OpEntries(update, "$push"), 1) ELSE r

ThenPull(r, update) ==
    IF r.ok THEN PullLoop(r.doc, OpEntries(update, "$pull"), 1) ELSE r

(* apply_update running $inc ahead of $set *)
apply_update_IncBeforeSet(doc, update) ==
    IF update.t # "obj" THEN Err(doc)
    ELSE LET inc == IncLoop(doc, OpEntries(update, "$inc"), 1)
             set == IF inc.ok THEN SetLoop(inc.doc, OpEntries(update, "$set"), 1)
                    ELSE inc
         IN  ThenPull(ThenPush(ThenUnset(set, update), update), update)

apply_update(doc, update) ==
    IF update.t # "obj" THEN Err(doc)
    ELSE ThenPull(ThenPush(ThenInc(ThenUnset(
             SetLoop(doc, OpEntries(update, "$set"), 1),
             update), update), update), update)

-----------------------------------------------------------------------------
(* Query (query.rs).  The conditions of a query are the sequence of their  *)
(* <<key, value>> entries in the iteration order of the conditions map.    *)

(* s.contains(pattern) *)
StrContains(s, pattern) ==
    \E i \in 1..(Len(s) + 1) :
        /\ i + Len(pattern) - 1 <= Len(s)
        /\ SubSeq(s, i, i + Len(pattern) - 1) = pattern

(* One (op, op_value) clause of field_matches: TRUE when the loop goes on  *)
(* to the next operator, FALSE when it returns false.                      *)
FieldOp(op, op_value, doc_value) ==
    CASE op = "$eq" -> doc_value.found /\ ValEq(doc_value.value, op_value)
      [] op = "$ne" -> ~(doc_value.found /\ ValEq(doc_value.value, op_value))
      [] op \in {"$gt", "$gte", "$lt", "$lte"} ->
            doc_value.found /\ NumCmp(op, doc_value.value, op_value)
      [] op = "$in" ->
            /\ doc_value.found
            /\ op_value.t = "arr"
            /\ ArrContains(op_value.items, doc_value.value)
      [] op = "$nin" ->
            doc_value.found =>
                (op_value.t = "arr" /\ ~ArrContains(op_value.items, doc_value.value))
      [] op = "$exists" ->
            op_value.t = "bool" => (op_value.b <=> doc_value.found)
      [] op = "$regex" ->
            /\ doc_value.found
            /\ doc_value.value.t = "str"
            /\ op_value.t = "str"
            /\ StrContains(doc_value.value.s, op_value.s)
      [] OTHER -> FALSE

(* field_matches decided by the first operator of the condition alone *)
field_matches_FirstOperator(field, condition, doc) ==
    IF condition.t = "obj"
    THEN Len(condition.pairs) = 0
             \/ FieldOp(condition.pairs[1][1], condition.pairs[1][2], get(doc, field))
    ELSE get(doc, field).found /\ ValEq(get(doc, field).value, condition)

field_matches(field, condition, doc) ==
    LET doc_value == get(doc, field)
    IN  IF condition.t = "obj"
        THEN \A i \in 1..Len(condition.pairs) :
                 FieldOp(condition.pairs[i][1], condition.pairs[i][2], doc_value)
        ELSE doc_value.found /\ ValEq(doc_value.value, condition)

(* The loop of Query::matches over the conditions from entry i on.         *)
RECURSIVE MatchFrom(_, _, _)
MatchFrom(conditions, doc, i) ==
    IF i > Len(conditions) THEN TRUE
    ELSE LET key == conditions[i][1]
             value == conditions[i][2]
             Sub(c) == c.t = "obj" /\ MatchFrom(c.pairs, doc, 1)
         IN  CASE key = "$and" ->
                    IF /\ value.t = "arr"
                       /\ \E j \in 1..Len(value.items) :
                              value.items[j].t = "obj" /\ ~Sub(value.items[j])
                    THEN FALSE
                    ELSE MatchFrom(conditions, doc, i + 1)
               [] key = "$or" ->
                    IF value.t # "arr" THEN MatchFrom(conditions, doc, i + 1)
                    ELSE IF Len(value.items) = 0 THEN TRUE
                    ELSE IF \E j \in 1..Len(value.items) : Sub(value.items[j])
                    THEN MatchFrom(conditions, doc, i + 1)
                    ELSE FALSE
               [] key = "$not" ->
                    IF Sub(value) THEN FALSE
                    ELSE MatchFrom(conditions, doc, i + 1)
               [] OTHER ->
                    IF field_matches(key, value, doc)
                    THEN MatchFrom(conditions, doc, i + 1)
                    ELSE FALSE

(* matches passing over every $not of the query *)
matches_SkipsNot(query, doc) ==
    MatchFrom(SelectSeq(query, LAMBDA c : c[1] # "$not"), doc, 1)

matches(query, doc) == MatchFrom(query, doc, 1)

get_field_value(query, field) == ObjGet(query, field)

has_simple_equality(query, field) ==
    LET value == ObjGet(query, field)
    IN  value.found /\ value.value.t # "obj"

has_equality_operator(query, field) ==
    LET value == ObjGet(query, field)
    IN  IF value.found /\ value.value.t = "obj"
        THEN ObjGet(value.value.pairs, "$eq")
        ELSE None

-----------------------------------------------------------------------------
(* Index (index.rs).  single_index and multi_index are maps from the       *)
(* composite key to a document id and to a set of document ids.            *)

(* serde_json::to_string of a value *)
RECURSIVE ToJson(_)
RECURSIVE JoinJson(_, _)
JoinJson(texts, i) ==
    IF i > Len(texts) THEN ""
    ELSE IF i = Len(texts) THEN texts[i]
    ELSE texts[i] \o "," \o JoinJson(texts, i + 1)

ToJson(v) ==
    CASE v.t = "null" -> "null"
      [] v.t = "bool" -> IF v.b THEN "true" ELSE "false"
      [] v.t = "num" -> IF v.float THEN ToString(v.n) \o ".0" ELSE ToString(v.n)
      [] v.t = "str" -> "\"" \o v.s \o "\""
      [] v.t = "arr" ->
            "[" \o JoinJson([i \in 1..Len(v.items) |-> ToJson(v.items[i])], 1) \o "]"
      [] v.t = "obj" ->
            "{" \o JoinJson([i \in 1..Len(v.pairs) |->
                               "\"" \o v.pairs[i][1] \o "\":" \o ToJson(v.pairs[i][2])], 1)
                \o "}"

value_to_string(value) ==
    CASE value.t = "null" -> "null"
      [] value.t = "bool" -> IF value.b THEN "true" ELSE "false"
      [] value.t = "num" ->
            IF value.float THEN ToString(value.n) \o ".0" ELSE ToString(value.n)
      [] value.t = "str" -> value.s
      [] OTHER -> ToJson(value)

NewIndex(name, fields, index_type) ==
    [name |-> name, fields |-> fields, index_type |-> index_type,
     single_index |-> EmptyMap, multi_index |-> EmptyMap]

(* key_parts.join("|") *)
RECURSIVE JoinKey(_, _)
JoinKey(parts, i) ==
    IF i > Len(parts) THEN ""
    ELSE IF i = Len(parts) THEN parts[i]
    ELSE parts[i] \o "|" \o JoinKey(parts, i + 1)

(* The key of a single-field index from doc.get(field).                   *)
SingleFieldKey(value) ==
    IF value.found THEN [ok |-> TRUE, key |-> value_to_string(value.value)]
    ELSE [ok |-> FALSE]

(* One part of the key of a compound index from doc.get(field).           *)
KeyPart(value) == IF value.found THEN value_to_string(value.value) ELSE "null"

get_index_key(index, doc) ==
    IF Len(index.fields) = 1
    THEN SingleFieldKey(get(doc, index.fields[1]))
    ELSE [ok |-> TRUE,
          key |-> JoinKey([i \in 1..Len(index.fields) |->
                             KeyPart(get(doc, index.fields[i]))], 1)]

(* add_document without the uniqueness check *)
AddUnderKey_NoUniqueCheck(index, doc, k) ==
    IF ~k.ok THEN [ok |-> FALSE, index |-> index]
    ELSE IF index.index_type \in {"single", "unique"}
    THEN [ok |-> TRUE,
          index |-> [index EXCEPT !.single_index = MapPut(@, k.key, doc.id)]]
    ELSE [ok |-> TRUE,
          index |-> [index EXCEPT
                       !.multi_index =
                           MapPut(@, k.key,
                                  (IF k.key \in DOMAIN @ THEN @[k.key] ELSE {})
                                      \cup {doc.id})]]

(* Result<(), String> of an index operation, with the index as it left it. *)
(* The body of add_document once the key k is computed.                    *)
AddUnderKey(index, doc, k) ==
    IF ~k.ok THEN [ok |-> FALSE, index |-> index]
    ELSE IF index.index_type \in {"single", "unique"}
    THEN IF /\ k.key \in DOMAIN index.single_index
            /\ index.index_type = "unique"
            /\ index.single_index[k.key] # doc.id
         THEN [ok |-> FALSE, index |-> index]
         ELSE [ok |-> TRUE,
               index |-> [index EXCEPT !.single_index = MapPut(@, k.key, doc.id)]]
    ELSE [ok |-> TRUE,
          index |-> [index EXCEPT
                       !.multi_index =
                           MapPut(@, k.key,
                                  (IF k.key \in DOMAIN @ THEN @[k.key] ELSE {})
                                      \cup {doc.id})]]

add_document(index, doc) == AddUnderKey(index, doc, get_index_key(index, doc))

(* remove_document deleting the entry of a Single or Unique index whatever *)
(* id it records                                                           *)
RemoveUnderKey_AnyOwner(index, doc, k) ==
    IF ~k.ok THEN [ok |-> FALSE, index |-> index]
    ELSE IF index.index_type \in {"single", "unique"}
    THEN [ok |-> TRUE, index |-> [index EXCEPT !.single_index = MapRemove(@, k.key)]]
    ELSE IF k.key \in DOMAIN index.multi_index
    THEN [ok |-> TRUE,
          index |-> [index EXCEPT
                       !.multi_index =
                           IF @[k.key] \ {doc.id} = {} THEN MapRemove(@, k.key)
                           ELSE MapPut(@, k.key, @[k.key] \ {doc.id})]]
    ELSE [ok |-> TRUE, index |-> index]

(* remove_document leaving the key of a Multi index with the ids left,     *)
(* none included                                                           *)
RemoveUnderKey_KeepsEmptyKey(index, doc, k) ==
    IF ~k.ok THEN [ok |-> FALSE, index |-> index]
    ELSE IF index.index_type \in {"single", "unique"}
    THEN IF k.key \in DOMAIN index.single_index /\ index.single_index[k.key] = doc.id
         THEN [ok |-> TRUE,
               index |-> [index EXCEPT !.single_index = MapRemove(@, k.key)]]
         ELSE [ok |-> TRUE, index |-> index]
    ELSE IF k.key \in DOMAIN index.multi_index
    THEN [ok |-> TRUE,
          index |-> [index EXCEPT
                       !.multi_index = MapPut(@, k.key, @[k.key] \ {doc.id})]]
    ELSE [ok |-> TRUE, index |-> index]

(* The body of remove_document once the key k is computed.                 *)
RemoveUnderKey(index, doc, k) ==
    IF ~k.ok THEN [ok |-> FALSE, index |-> index]
    ELSE IF index.index_type \in {"single", "unique"}
    THEN IF k.key \in DOMAIN index.single_index /\ index.single_index[k.key] = doc.id
         THEN [ok |-> TRUE,
               index |-> [index EXCEPT !.single_index = MapRemove(@, k.key)]]
         ELSE [ok |-> TRUE, index |-> index]
    ELSE IF k.key \in DOMAIN index.multi_index
    THEN [ok |-> TRUE,
          index |-> [index EXCEPT
                       !.multi_index =
                           IF @[k.key] \ {doc.id} = {} THEN MapRemove(@, k.key)
                           ELSE MapPut(@, k.key, @[k.key] \ {doc.id})]]
    ELSE [ok |-> TRUE, index |-> index]

remove_document(index, doc) == RemoveUnderKey(index, doc, get_index_key(index, doc))

clear(index) == [index EXCEPT !.single_index = EmptyMap, !.multi_index = EmptyMap]

(* The fields of the index the query pins to a value, by position.         *)
PinnedFields(index, query) ==
    {i \in 1..Len(index.fields) :
        \/ has_simple_equality(query, index.fields[i])
        \/ has_equality_operator(query, index.fields[i]).found}

can_use_for_query(index, query) ==
    LET pinned == PinnedFields(index, query)
    IN  IF pinned = {} THEN None
        ELSE Some(index.fields[CHOOSE i \in pinned : \A j \in pinned : i <= j])

(* Document::new(): a placeholder with a generated id and no data.         *)
NewDocument(uuid) == Doc(uuid, EmptyMap)

(* SelectSeq with a two-argument test *)
RECURSIVE FilterMatching(_, _)
FilterMatching(docs, q) ==
    IF Len(docs) = 0 THEN <<>>
    ELSE IF matches(q, Head(docs))
    THEN <<Head(docs)>> \o FilterMatching(Tail(docs), q)
    ELSE FilterMatching(Tail(docs), q)

(* The candidates Index::query finds under a key: one placeholder per   *)
(* document id recorded; uuids are the ids generate_uuid gives them.       *)
Candidates(index, key, uuids) ==
    [i \in 1..(IF index.index_type \in {"single", "unique"}
               THEN IF key \in DOMAIN index.single_index THEN 1 ELSE 0
               ELSE IF key \in DOMAIN index.multi_index
                    THEN Cardinality(index.multi_index[key]) ELSE 0)
       |-> NewDocument(uuids[i])]

(* The value the query pins the field to.                                  *)
PinnedValue(q, field) ==
    IF has_simple_equality(q, field)
    THEN get_field_value(q, field).value
    ELSE has_equality_operator(q, field).value

QueryByField(index, q, uuids, field) ==
    FilterMatching(Candidates(index, value_to_string(PinnedValue(q, field)), uuids), q)

query(index, q, uuids) ==
    IF PinnedFields(index, q) = {} THEN <<>>
    ELSE QueryByField(index, q, uuids, can_use_for_query(index, q).value)

(* self.query(query).into_iter().next() *)
First(results) == IF Len(results) = 0 THEN None ELSE Some(results[1])

query_one(index, q, uuids) == First(query(index, q, uuids))

-----------------------------------------------------------------------------
(* Collection (lib.rs).  indexes is a map from index name to Index; a loop *)
(* over it visits the names in an order the map chooses, the same order    *)
(* for every loop of one call.                                             *)

(* The orders in which a map with key set S can be iterated.               *)
Orders(S) ==
    {o \in [1..Cardinality(S) -> S] : \A i, j \in DOMAIN o : i # j => o[i] # o[j]}

Outcome(ok, docs, idx, count) ==
    [ok |-> ok, documents |-> docs, indexes |-> idx, count |-> count]

(* for (name, index) in &mut self.indexes { index.add_document(doc)? },   *)
(* from the i-th index visited on; r is what add_document returned.        *)
RECURSIVE AddToIndexes(_, _, _, _)
AddVisited(idx, order, doc, i, r) ==
    IF r.ok
    THEN AddToIndexes([idx EXCEPT ![order[i]] = r.index], order, doc, i + 1)
    ELSE [ok |-> FALSE, indexes |-> idx]

AddToIndexes(idx, order, doc, i) ==
    IF i > Len(order) THEN [ok |-> TRUE, indexes |-> idx]
    ELSE AddVisited(idx, order, doc, i, add_document(idx[order[i]], doc))

(* for (name, index) in &mut self.indexes { index.remove_document(doc)? }  *)
RECURSIVE RemoveFromIndexes(_, _, _, _)
RemoveVisited(idx, order, doc, i, r) ==
    IF r.ok
    THEN RemoveFromIndexes([idx EXCEPT ![order[i]] = r.index], order, doc, i + 1)
    ELSE [ok |-> FALSE, indexes |-> idx]

RemoveFromIndexes(idx, order, doc, i) ==
    IF i > Len(order) THEN [ok |-> TRUE, indexes |-> idx]
    ELSE RemoveVisited(idx, order, doc, i, remove_document(idx[order[i]], doc))

(* The positions of the documents the query matches, ascending.            *)
RECURSIVE MatchingFrom(_, _, _)
MatchingFrom(docs, q, i) ==
    IF i > Len(docs) THEN <<>>
    ELSE IF matches(q, docs[i])
    THEN <<i>> \o MatchingFrom(docs, q, i + 1)
    ELSE MatchingFrom(docs, q, i + 1)

matching_docs(docs, q) == MatchingFrom(docs, q, 1)

(* Collection::insert once the document has its id: the duplicate check,   *)
(* the index loop (added is its result) and the push.                      *)
InsertIndexed(docs, doc, added) ==
    IF added.ok
    THEN Outcome(TRUE, Append(docs, doc), added.indexes, 0)
    ELSE Outcome(FALSE, docs, added.indexes, 0)

InsertWithId(docs, idx, order, doc) ==
    IF \E i \in 1..Len(docs) : docs[i].id = doc.id
    THEN Outcome(FALSE, docs, idx, 0)
    ELSE InsertIndexed(docs, doc, AddToIndexes(idx, order, doc, 1))

(* Collection::insert of a parsed document; uuid is what generate_uuid     *)
(* returns when the document comes with an empty id.                       *)
insert(docs, idx, order, input, uuid) ==
    InsertWithId(docs, idx, order,
                 IF input.id = "" THEN Doc(uuid, input.data) ELSE input)

(* The loop of Collection::update over matching, from its k-th entry on,   *)
(* and the three steps of its body: after the removal from the indexes,    *)
(* after apply_update, after the reinsertion.                              *)
RECURSIVE UpdateLoop(_, _, _, _, _, _, _)
(* update returning after the first document it updated *)
UpdateAdded_StopsAfterFirst(docs, order, matching, k, upd, count, added) ==
    IF ~added.ok THEN Outcome(FALSE, docs, added.indexes, count)
    ELSE Outcome(TRUE, docs, added.indexes, count + 1)

UpdateAdded(docs, order, matching, k, upd, count, added) ==
    IF ~added.ok THEN Outcome(FALSE, docs, added.indexes, count)
    ELSE UpdateLoop(docs, added.indexes, order, matching, k + 1, upd, count + 1)

UpdateApplied(docs, idx, order, matching, k, upd, count, applied) ==
    IF ~applied.ok
    THEN Outcome(FALSE, [docs EXCEPT ![matching[k]] = applied.doc], idx, count)
    ELSE UpdateAdded([docs EXCEPT ![matching[k]] = applied.doc], order, matching, k,
                     upd, count, AddToIndexes(idx, order, applied.doc, 1))

UpdateRemoved(docs, order, matching, k, upd, count, removed) ==
    IF ~removed.ok THEN Outcome(FALSE, docs, removed.indexes, count)
    ELSE UpdateApplied(docs, removed.indexes, order, matching, k, upd, count,
                       apply_update(docs[matching[k]], upd))

(* update taking a document out of the indexes after apply_update changed *)
(* its fields                                                              *)
UpdateLoop_AppliesFirst(docs, idx, order, matching, k, upd, count) ==
    IF k > Len(matching) THEN Outcome(TRUE, docs, idx, count)
    ELSE UpdateRemoved(docs, order, matching, k, upd, count,
                       RemoveFromIndexes(idx, order,
                                         apply_update(docs[matching[k]], upd).doc, 1))

UpdateLoop(docs, idx, order, matching, k, upd, count) ==
    IF k > Len(matching) THEN Outcome(TRUE, docs, idx, count)
    ELSE UpdateRemoved(docs, order, matching, k, upd, count,
                       RemoveFromIndexes(idx, order, docs[matching[k]], 1))

update(docs, idx, order, q, upd) ==
    UpdateLoop(docs, idx, order, matching_docs(docs, q), 1, upd, 0)

(* documents.remove(i) *)
RemoveAt(docs, i) == SubSeq(docs, 1, i - 1) \o SubSeq(docs, i + 1, Len(docs))

(* The loop of Collection::delete over matching in reverse, from its k-th  *)
(* entry down; removed is the result of the removal from the indexes.      *)
RECURSIVE DeleteLoop(_, _, _, _, _, _)
DeleteRemoved(docs, order, matching, k, count, removed) ==
    IF ~removed.ok THEN Outcome(FALSE, docs, removed.indexes, count)
    ELSE DeleteLoop(RemoveAt(docs, matching[k]), removed.indexes, order, matching,
                    k - 1, count + 1)

DeleteLoop(docs, idx, order, matching, k, count) ==
    IF k < 1 THEN Outcome(TRUE, docs, idx, count)
    ELSE DeleteRemoved(docs, order, matching, k, count,
                       RemoveFromIndexes(idx, order, docs[matching[k]], 1))

DeleteMatching(docs, idx, order, matching) ==
    DeleteLoop(docs, idx, order, matching, Len(matching), 0)

delete(docs, idx, order, q) == DeleteMatching(docs, idx, order, matching_docs(docs, q))

IndexTypes == {"single", "unique", "multi"}

(* for doc in &self.documents { index.add_document(doc)? } *)
RECURSIVE Backfill(_, _, _)
BackfillAdded(docs, i, r) ==
    IF r.ok THEN Backfill(r.index, docs, i + 1) ELSE [ok |-> FALSE, index |-> r.index]

Backfill(index, docs, i) ==
    IF i > Len(docs) THEN [ok |-> TRUE, index |-> index]
    ELSE BackfillAdded(docs, i, add_document(index, docs[i]))

(* create_index installing the index whatever the backfill returned *)
InstallIndex_EvenOnFailure(docs, idx, name, r) ==
    Outcome(r.ok, docs, MapPut(idx, name, r.index), 0)

(* self.indexes.insert(name, index) when the backfill r succeeded *)
InstallIndex(docs, idx, name, r) ==
    IF r.ok THEN Outcome(TRUE, docs, MapPut(idx, name, r.index), 0)
    ELSE Outcome(FALSE, docs, idx, 0)

create_index(docs, idx, name, fields, index_type_str) ==
    IF index_type_str \notin IndexTypes THEN Outcome(FALSE, docs, idx, 0)
    ELSE InstallIndex(docs, idx, name,
                      Backfill(NewIndex(name, fields, index_type_str), docs, 1))

(* Ok(existed): count is 1 when an index of that name existed *)
drop_index(docs, idx, name) ==
    Outcome(TRUE, docs, MapRemove(idx, name), IF name \in DOMAIN idx THEN 1 ELSE 0)

(* The loop of Collection::from_json over the parsed documents: the i-th   *)
(* document is pushed, then added to the indexes (added is the result).    *)
RECURSIVE FromJsonLoop(_, _, _, _, _)
FromJsonAdded(docs, order, input, i, added) ==
    IF added.ok THEN FromJsonLoop(docs, added.indexes, order, input, i + 1)
    ELSE Outcome(FALSE, docs, added.indexes, 0)

FromJsonLoop(docs, idx, order, input, i) ==
    IF i > Len(input) THEN Outcome(TRUE, docs, idx, 0)
    ELSE FromJsonAdded(Append(docs, input[i]), order, input, i,
                       AddToIndexes(idx, order, input[i], 1))

from_json(idx, order, input) ==
    FromJsonLoop(<<>>, [n \in DOMAIN idx |-> clear(idx[n])], order, input, 1)

(* Serialize of Document: the entry "id", then the entries of data         *)
(* flattened beside it, in the order the data map is iterated.             *)
SerializeDoc(doc, order) ==
    <<<<"id", Str(doc.id)>>>> \o [i \in 1..Len(order) |-> <<order[i], doc.data[order[i]]>>]

(* Collection::to_json: the serialized documents, in order; orders[i] is   *)
(* the iteration order of the data of the i-th document.                   *)
to_json(docs, orders) == [i \in 1..Len(docs) |-> SerializeDoc(docs[i], orders[i])]

(* The iteration orders to_json can meet, one per document.                *)
DataOrders(docs) ==
    {os \in [1..Len(docs) -> UNION {Orders(DOMAIN docs[i].data) : i \in 1..Len(docs)}] :
        \A i \in 1..Len(docs) : os[i] \in Orders(DOMAIN docs[i].data)}

(* Deserialize of Document from the entries of a JSON object: "id" must    *)
(* be there once and be a string, every other entry goes to data.          *)
RECURSIVE DataOf(_, _)
DataOf(entries, i) ==
    IF i > Len(entries) THEN EmptyMap
    ELSE IF entries[i][1] = "id" THEN DataOf(entries, i + 1)
    ELSE LET rest == DataOf(entries, i + 1)
         IN  IF entries[i][1] \in DOMAIN rest THEN rest
             ELSE MapPut(rest, entries[i][1], entries[i][2])

DeserializeDoc(entries) ==
    LET ids == {i \in 1..Len(entries) : entries[i][1] = "id"}
    IN  IF Cardinality(ids) = 1 /\ \A i \in ids : entries[i][2].t = "str"
        THEN [ok |-> TRUE,
              doc |-> Doc(entries[CHOOSE i \in ids : TRUE][2].s, DataOf(entries, 1))]
        ELSE [ok |-> FALSE]

(* Collection::from_json of a serialized collection: serde_json::from_str  *)
(* of every document first, then the reload.                               *)
from_json_text(docs, idx, order, json) ==
    IF \A i \in 1..Len(json) : DeserializeDoc(json[i]).ok
    THEN from_json(idx, order, [i \in 1..Len(json) |-> DeserializeDoc(json[i]).doc])
    ELSE Outcome(FALSE, docs, idx, 0)

(* The first index, in the order the map is visited, that is usable.       *)
Usable(idx, order, q) ==
    {i \in 1..Len(order) : can_use_for_query(idx[order[i]], q).found}

find_usable_index(idx, order, q) ==
    IF Usable(idx, order, q) = {} THEN None
    ELSE Some(order[CHOOSE i \in Usable(idx, order, q) :
                        \A j \in Usable(idx, order, q) : i <= j])

FindWith(docs, idx, q, uuids, name) ==
    IF name.found THEN query(idx[name.value], q, uuids)
    ELSE FilterMatching(docs, q)

find(docs, idx, order, q, uuids) ==
    FindWith(docs, idx, q, uuids, find_usable_index(idx, order, q))

FindOneWith(docs, idx, q, uuids, name) ==
    IF name.found THEN query_one(idx[name.value], q, uuids)
    ELSE First(FilterMatching(docs, q))

find_one(docs, idx, order, q, uuids) ==
    FindOneWith(docs, idx, q, uuids, find_usable_index(idx, order, q))

-----------------------------------------------------------------------------
(* The collection as a state machine: one action per public operation.     *)
(* last records the latest call: its argument (for the calls that change   *)
(* one document or one index at a time), whether it returned Ok, and the   *)
(* number of documents update and delete had completed when they returned. *)

MaxDocs == 2

MaxNum == 1

(* what generate_uuid can return *)
UuidPool == {"u"}

DataInputs == {EmptyMap, [a |-> Str("x")]}

(* documents given to insert: "" is the empty id, replaced by a fresh one *)
InsertInputs == {Doc(id, data) : id \in {"", "1"}, data \in DataInputs}

JsonDocs == {Doc("1", [a |-> Str("x")]), Doc("1", EmptyMap)}

JsonInputs == UNION {[1..n -> JsonDocs] : n \in 0..MaxDocs}

QAll == <<>>

QEqualsX == <<<<"a", Str("x")>>>>

QEqOne == <<<<"a", Obj(<<<<"$eq", Flt(1)>>>>)>>>>

Queries == {QAll, QEqualsX, QEqOne}

UInc == Obj(<<<<"$inc", Obj(<<<<"a", Num(1)>>>>)>>>>)

USet == Obj(<<<<"$set", Obj(<<<<"a", Str("x")>>>>)>>>>)

Updates == {UInc, USet}

IndexInputs == {<<"i", <<"a">>, "single">>, <<"i", <<"a">>, "multi">>,
                <<"j", <<"a">>, "unique">>, <<"j", <<"a", "b">>, "unique">>,
                <<"j", <<"a">>, "hash">>}

IndexNames == {"i", "j"}

(* the ids generate_uuid gives the placeholders of one Index::query        *)
UuidInputs == [1..2 * MaxDocs -> UuidPool]

(* every number a document holds stays within MaxNum *)
NumbersBounded(docs) ==
    \A i \in 1..Len(docs) : \A k \in DOMAIN docs[i].data :
        docs[i].data[k].t = "num" => docs[i].data[k].n <= MaxNum

Init ==
    /\ documents = <<>>
    /\ indexes = EmptyMap
    /\ last = [op |-> "new", arg |-> <<>>, ok |-> TRUE, count |-> 0]
    /\ collection_name = "c"
    /\ collections = EmptyMap

(* The call op with argument arg returns with outcome r. *)
Returns(op, arg, r) ==
    /\ documents' = r.documents
    /\ indexes' = r.indexes
    /\ last' = [op |-> op, arg |-> arg, ok |-> r.ok, count |-> r.count]
    /\ UNCHANGED <<collection_name, collections>>

Insert ==
    \E input \in InsertInputs, uuid \in UuidPool, order \in Orders(DOMAIN indexes) :
        /\ Len(documents) < MaxDocs
        /\ Returns("insert", IF input.id = "" THEN Doc(uuid, input.data) ELSE input,
                   insert(documents, indexes, order, input, uuid))

Find ==
    \E q \in Queries, order \in Orders(DOMAIN indexes), uuids \in UuidInputs :
        /\ Len(find(documents, indexes, order, q, uuids)) >= 0
        /\ last' = [op |-> "find", arg |-> <<>>, ok |-> TRUE, count |-> 0]
        /\ UNCHANGED <<documents, indexes, collection_name, collections>>

FindOne ==
    \E q \in Queries, order \in Orders(DOMAIN indexes), uuids \in UuidInputs :
        /\ find_one(documents, indexes, order, q, uuids).found \in BOOLEAN
        /\ last' = [op |-> "find_one", arg |-> <<>>, ok |-> TRUE, count |-> 0]
        /\ UNCHANGED <<documents, indexes, collection_name, collections>>

Update ==
    \E q \in Queries, upd \in Updates, order \in Orders(DOMAIN indexes) :
        /\ NumbersBounded(update(documents, indexes, order, q, upd).documents)
        /\ Returns("update", <<q, upd>>, update(documents, indexes, order, q, upd))

Delete ==
    \E q \in Queries, order \in Orders(DOMAIN indexes) :
        Returns("delete", q, delete(documents, indexes, order, q))

CreateIndex ==
    \E def \in IndexInputs :
        /\ def[1] \in IndexNames
        /\ Returns("create_index", def,
                   create_index(documents, indexes, def[1], def[2], def[3]))

DropIndex ==
    \E name \in IndexNames :
        /\ name \in IndexNames
        /\ Returns("drop_index", name, drop_index(documents, indexes, name))

FromJson ==
    \E input \in JsonInputs, order \in Orders(DOMAIN indexes) :
        Returns("from_json", <<>>, from_json(indexes, order, input))

Next ==
    \/ Insert
    \/ Find
    \/ FindOne
    \/ Update
    \/ Delete
    \/ CreateIndex
    \/ DropIndex
    \/ FromJson

Spec == Init /\ [][Next]_vars

-----------------------------------------------------------------------------
(* One document as a state machine: documents holds the document alone,    *)
(* there is no index, and the actions are the calls made on a document by  *)
(* Collection::update (apply_update) and by Query (get, field_matches,     *)
(* matches).  For the calls that return a bool or an Option, last.ok is    *)
(* the bool returned, or whether the Option is Some.                       *)

DocInputs ==
    {Doc("1", EmptyMap), Doc("1", [a |-> Str("x")]), Doc("1", [a |-> Num(1)]),
     Doc("1", [a |-> Obj(<<<<"b", Str("x")>>>>)]),
     Doc("1", [a |-> Arr(<<Num(0), Num(1), Num(2)>>)])}

(* An update spec with one operator, and one with two.                     *)
Upd1(op, entries) == Obj(<<<<op, Obj(entries)>>>>)

Upd2(op1, entries1, op2, entries2) ==
    Obj(<<<<op1, Obj(entries1)>>, <<op2, Obj(entries2)>>>>)

DocUpdates ==
    {Upd1("$set", <<<<"a", Str("y")>>>>),
     Upd1("$set", <<<<"a.b", Str("y")>>>>),
     Upd1("$set", <<<<"a.b.c", Str("y")>>>>),
     Upd1("$set", <<<<"id.x", Str("y")>>>>),
     Upd1("$set", <<<<"id", Str("z")>>>>),
     Upd1("$set", <<<<"a", Str("y")>>, <<"id", Str("z")>>>>),
     Upd1("$unset", <<<<"id", Str("")>>>>),
     Upd1("$unset", <<<<"a", Str("")>>, <<"id", Str("")>>>>),
     Upd1("$inc", <<<<"id", Num(1)>>>>),
     Upd1("$push", <<<<"id", Num(1)>>>>),
     Upd1("$pull", <<<<"id", Num(1)>>>>),
     Upd2("$set", <<<<"a", Str("y")>>>>, "$inc", <<<<"id", Num(1)>>>>),
     Upd1("$unset", <<<<"a", Str("")>>>>),
     Upd1("$unset", <<<<"a.b", Str("")>>>>),
     Upd1("$inc", <<<<"a", Num(1)>>>>),
     Upd1("$inc", <<<<"a", Num(-1)>>>>),
     Upd1("$pull", <<<<"a", Num(1)>>>>),
     Upd1("$pull", <<<<"a", Obj(<<<<"$gt", Num(0)>>>>)>>>>),
     Upd1("$pull", <<<<"a", Obj(<<<<"$gt", Num(0)>>, <<"$lt", Num(2)>>>>)>>>>),
     Upd2("$inc", <<<<"a", Num(1)>>>>, "$set", <<<<"a", Num(0)>>>>),
     Upd2("$inc", <<<<"a", Num(1)>>>>, "$set", <<<<"a", Str("y")>>>>),
     Upd2("$unset", <<<<"a", Str("")>>>>, "$set", <<<<"a", Str("y")>>>>),
     Upd2("$pull", <<<<"a", Num(1)>>>>, "$push", <<<<"a", Num(1)>>>>),
     Upd2("$push", <<<<"a", Num(1)>>>>, "$inc", <<<<"a", Num(1)>>>>)}

PathInputs == {"a", "a.b", "a.b.c", "id", "id.x"}

(* Conditions on one field: a literal, or an operator object.              *)
Cond1(op, operand) == Obj(<<<<op, operand>>>>)

Cond2(op1, operand1, op2, operand2) == Obj(<<<<op1, operand1>>, <<op2, operand2>>>>)

CondInputs ==
    {Cond1(op, v) : op \in {"$eq", "$ne"}, v \in {Str("x"), Str("y"), Num(1), Flt(1)}}
        \cup {Cond1(op, v) : op \in {"$gt", "$gte", "$lt", "$lte"},
                             v \in {Num(0), Num(1), Num(2), Str("x")}}
        \cup {Cond1(op, v) : op \in {"$in", "$nin"},
                             v \in {Arr(<<>>), Arr(<<Str("x")>>), Arr(<<Num(1)>>)}}
        \cup {Cond1("$exists", v) : v \in {Bool(TRUE), Bool(FALSE)}}
        \cup {Cond1("$regex", v) : v \in {Str(""), Str("x"), Str("z")}}
        \cup {Cond1("$foo", Num(1)),
              Cond2("$gte", Num(1), "$lt", Num(1)),
              Cond2("$ne", Str("y"), "$eq", Str("y")),
              Cond2("$exists", Bool(TRUE), "$nin", Arr(<<Str("x")>>)),
              Cond2("$gte", Num(1), "$foo", Num(1)),
              Cond2("$gte", Num(1), "$lte", Num(1))}

FieldInputs == {"a", "a.b"}

(* Sub-conditions of the combinators, and the queries given to matches.    *)
SubQueries == {<<>>, <<<<"a", Str("x")>>>>, <<<<"a", Str("y")>>>>}

SubArrays == UNION {[1..n -> {Obj(c) : c \in SubQueries}] : n \in 0..2}

QueryInputs ==
    SubQueries
        \cup {<<<<"$not", Obj(c)>>>> : c \in SubQueries}
        \cup {<<<<"$and", Arr(cs)>>>> : cs \in SubArrays}
        \cup {<<<<"$or", Arr(cs)>>>> : cs \in SubArrays}
        \cup {<<<<"$or", Arr(<<>>)>>, <<"a", Str("y")>>>>,
              <<<<"a", Str("y")>>, <<"$or", Arr(<<>>)>>>>,
              <<<<"a", Str("x")>>, <<"$not", Obj(<<<<"a", Str("y")>>>>)>>>>}

DocInit ==
    /\ documents \in {<<d>> : d \in DocInputs}
    /\ indexes = EmptyMap
    /\ last = [op |-> "new", arg |-> <<>>, ok |-> TRUE, count |-> 0]
    /\ collection_name = "c"
    /\ collections = EmptyMap

(* The call op with argument arg returned ok and left the document as doc. *)
DocReturns(op, arg, ok, doc) ==
    /\ documents' = <<doc>>
    /\ indexes' = indexes
    /\ last' = [op |-> op, arg |-> arg, ok |-> ok, count |-> 0]
    /\ UNCHANGED <<collection_name, collections>>

(* The numbers a document holds at the top level stay within MaxNum, so    *)
(* that repeated $inc keeps the state space finite.                        *)
WithinMaxNum(doc) ==
    \A k \in DOMAIN doc.data :
        doc.data[k].t = "num" => (doc.data[k].n >= -MaxNum /\ doc.data[k].n <= MaxNum)

ApplyUpdate ==
    \E upd \in DocUpdates :
        /\ Len(documents) = 1
        /\ WithinMaxNum(apply_update(documents[1], upd).doc)
        /\ DocReturns("apply_update", upd, apply_update(documents[1], upd).ok,
                      apply_update(documents[1], upd).doc)

Get ==
    \E path \in PathInputs :
        /\ Len(documents) = 1
        /\ DocReturns("get", path, get(documents[1], path).found, documents[1])

FieldMatches ==
    \E field \in FieldInputs, condition \in CondInputs :
        /\ Len(documents) = 1
        /\ DocReturns("field_matches", <<field, condition>>,
                      field_matches(field, condition, documents[1]), documents[1])

Matches ==
    \E q \in QueryInputs :
        /\ Len(documents) = 1
        /\ DocReturns("matches", q, matches(q, documents[1]), documents[1])

(* Collection::update on the collection that holds the document alone.    *)
UpdateOne ==
    \E q \in {QAll, QEqualsX}, upd \in DocUpdates :
        /\ Len(documents) = 1
        /\ WithinMaxNum(apply_update(documents[1], upd).doc)
        /\ Returns("update", <<q, upd>>, update(documents, indexes, <<>>, q, upd))

DocNext ==
    \/ ApplyUpdate
    \/ UpdateOne
    \/ Get
    \/ FieldMatches
    \/ Matches

DocSpec == DocInit /\ [][DocNext]_vars

-----------------------------------------------------------------------------
(* A fresh collection: Collection::new, then insert and find by id only.   *)

FreshIds == {"1", "2"} \cup UuidPool

FreshInputs == {Doc(id, data) : id \in {"", "1", "2"}, data \in DataInputs}

(* the query {"id": id} *)
QId(id) == <<<<"id", Str(id)>>>>

FreshInsert ==
    \E input \in FreshInputs, uuid \in UuidPool :
        /\ Len(documents) < MaxDocs
        /\ Returns("insert", IF input.id = "" THEN Doc(uuid, input.data) ELSE input,
                   insert(documents, indexes, <<>>, input, uuid))

(* find with the query {"id": id}: last.count is the number of documents   *)
(* returned.                                                               *)
FindById ==
    \E id \in FreshIds, uuids \in UuidInputs :
        /\ last' = [op |-> "find", arg |-> QId(id), ok |-> TRUE,
                    count |-> Len(find(documents, indexes, <<>>, QId(id), uuids))]
        /\ UNCHANGED <<documents, indexes, collection_name, collections>>

FreshNext ==
    \/ FreshInsert
    \/ FindById

FreshSpec == Init /\ [][FreshNext]_vars

-----------------------------------------------------------------------------
(* What an index holds, as a set of <<key, id>> entries.                   *)
Entries(index) ==
    {<<k, index.single_index[k]>> : k \in DOMAIN index.single_index}
        \cup UNION {{<<k, id>> : id \in index.multi_index[k]} :
                       k \in DOMAIN index.multi_index}

(* The document is in the index under the key of its current field values. *)
PresentIn(index, doc) ==
    /\ get_index_key(index, doc).ok
    /\ <<get_index_key(index, doc).key, doc.id>> \in Entries(index)

(* The entry names a current document whose current key is the entry's.    *)
Current(index, entry, docs) ==
    \E i \in 1..Len(docs) :
        /\ docs[i].id = entry[2]
        /\ get_index_key(index, docs[i]).ok
        /\ get_index_key(index, docs[i]).key = entry[1]

(* The key of the document has an entry in the index; a Single index keeps *)
(* one id per key, so there the entry may name another current document    *)
(* with the same key.                                                      *)
Covered(index, doc, docs) ==
    /\ get_index_key(index, doc).ok
    /\ IF index.index_type = "single"
       THEN \E e \in Entries(index) :
                e[1] = get_index_key(index, doc).key /\ Current(index, e, docs)
       ELSE PresentIn(index, doc)

(* C1: after every public operation every installed index holds exactly    *)
(* the entries of the current documents: no entry is stale (names an       *)
(* absent document or a key the document no longer has) and no current     *)
(* document is missing from an index.                                      *)
C1_IndexesConsistent ==
    \A n \in DOMAIN indexes :
        /\ \A e \in Entries(indexes[n]) : Current(indexes[n], e, documents)
        /\ \A i \in 1..Len(documents) : Covered(indexes[n], documents[i], documents)

(* C2: an insert that fails because an index rejects the document leaves   *)
(* the documents and every index as they were before the call.             *)
C2_FailedInsertChangesNothing ==
    [][(last'.op = "insert" /\ ~last'.ok)
          => (documents' = documents /\ indexes' = indexes)]_vars

(* C3: whenever an index is usable for a query, find through the index     *)
(* returns the documents a full scan filtered with matches returns, and    *)
(* find_one returns a document iff the scan finds one.                     *)
C3_IndexPathEqualsScan ==
    \A q \in Queries, order \in Orders(DOMAIN indexes), uuids \in UuidInputs :
        find_usable_index(indexes, order, q).found =>
            /\ find(documents, indexes, order, q, uuids) = FilterMatching(documents, q)
            /\ find_one(documents, indexes, order, q, uuids).found
                   <=> (Len(FilterMatching(documents, q)) > 0)

(* The key of the document is recorded in the index for another id.        *)
OwnedByOther(index, doc) ==
    /\ get_index_key(index, doc).ok
    /\ \E e \in Entries(index) :
           e[1] = get_index_key(index, doc).key /\ e[2] # doc.id

(* The documents insert and from_json are given, each with its id.         *)
GivenDocs ==
    JsonDocs \cup {Doc(IF d.id = "" THEN u ELSE d.id, d.data) :
                      d \in InsertInputs, u \in UuidPool}

(* C4: add_document on a Unique index fails for a document whose key is    *)
(* owned by a different id, so insert rejects such a document, and every   *)
(* key of a Unique index maps to at most one document id.                  *)
C4_UniqueRejectsSecondOwner ==
    \A n \in DOMAIN indexes :
        indexes[n].index_type = "unique" =>
            /\ \A doc \in GivenDocs :
                   OwnedByOther(indexes[n], doc) =>
                       /\ ~add_document(indexes[n], doc).ok
                       /\ \A order \in Orders(DOMAIN indexes) :
                              ~InsertWithId(documents, indexes, order, doc).ok
            /\ \A e1, e2 \in Entries(indexes[n]) : e1[1] = e2[1] => e1[2] = e2[2]

(* an insert was rejected by a Unique index alone: the id was free         *)
C4_Witness ==
    /\ last.op = "insert"
    /\ ~last.ok
    /\ \A i \in 1..Len(documents) : documents[i].id # last.arg.id
    /\ \E n \in DOMAIN indexes :
           indexes[n].index_type = "unique" /\ OwnedByOther(indexes[n], last.arg)
    /\ \A n \in DOMAIN indexes : get_index_key(indexes[n], last.arg).ok

(* C5: the documents never hold two entries with the same id, and an       *)
(* insert whose id collides with a current document fails and changes      *)
(* nothing.                                                                *)
C5_UniqueIds ==
    /\ \A i, j \in 1..Len(documents) : i # j => documents[i].id # documents[j].id
    /\ \A doc \in GivenDocs, order \in Orders(DOMAIN indexes) :
           (\E i \in 1..Len(documents) : documents[i].id = doc.id) =>
               InsertWithId(documents, indexes, order, doc)
                   = Outcome(FALSE, documents, indexes, 0)

(* The positions of the documents the query matches, and the k-th of them. *)
Matched(docs, q) == {i \in 1..Len(docs) : matches(q, docs[i])}

KthOf(S, k) == CHOOSE i \in S : Cardinality({j \in S : j < i}) = k - 1

(* A failed update stopped at the document after the count it completed;   *)
(* apply_update is what failed there when the removal from every index     *)
(* could not fail and apply_update returns an error for that document.     *)
FailedAt(docs, q, count) == KthOf(Matched(docs, q), count + 1)

ApplyFailed(docs, idx, q, upd, count) ==
    /\ \A n \in DOMAIN idx : get_index_key(idx[n], docs[FailedAt(docs, q, count)]).ok
    /\ ~apply_update(docs[FailedAt(docs, q, count)], upd).ok

(* C6: when apply_update fails on a matched document during update, the    *)
(* document is, after update returns, present in every index under the     *)
(* key of its field values.                                                *)
C6_FailedDocumentStaysIndexed ==
    [][(/\ last'.op = "update"
        /\ ~last'.ok
        /\ ApplyFailed(documents, indexes, last'.arg[1], last'.arg[2], last'.count))
          => \A n \in DOMAIN indexes' :
                 PresentIn(indexes'[n],
                           documents'[FailedAt(documents, last'.arg[1], last'.count)])]_vars

(* C7: a failure of apply_update on one matched document does not abort    *)
(* the update: every matched document after it has the spec applied.       *)
C7_UpdateGoesOnAfterFailure ==
    [][(/\ last'.op = "update"
        /\ ~last'.ok
        /\ ApplyFailed(documents, indexes, last'.arg[1], last'.arg[2], last'.count))
          => \A i \in Matched(documents, last'.arg[1]) :
                 i > FailedAt(documents, last'.arg[1], last'.count)
                     => documents'[i] = apply_update(documents[i], last'.arg[2]).doc]_vars

(* The entry under the key of docs[i] names the last document of docs      *)
(* with that key (Single), or docs[i] itself (Unique, Multi).              *)
CoveredByLast(index, docs, i) ==
    /\ get_index_key(index, docs[i]).ok
    /\ IF index.index_type = "single"
       THEN \E j \in i..Len(docs) :
                /\ get_index_key(index, docs[j]) = get_index_key(index, docs[i])
                /\ \A l \in (j + 1)..Len(docs) :
                       get_index_key(index, docs[l]) # get_index_key(index, docs[i])
                /\ PresentIn(index, docs[j])
       ELSE PresentIn(index, docs[i])

(* What a create_index call that returned changed: nothing when it         *)
(* failed; when it succeeded, the index of that name is the new one, built *)
(* from the current documents alone, and the others are untouched.         *)
CreateIndexFrame ==
    /\ documents' = documents
    /\ IF ~last'.ok THEN indexes' = indexes
       ELSE /\ DOMAIN indexes' = (DOMAIN indexes) \cup {last'.arg[1]}
            /\ \A n \in (DOMAIN indexes) \ {last'.arg[1]} : indexes'[n] = indexes[n]
            /\ indexes'[last'.arg[1]].fields = last'.arg[2]
            /\ indexes'[last'.arg[1]].index_type = last'.arg[3]
            /\ \A e \in Entries(indexes'[last'.arg[1]]) :
                   Current(indexes'[last'.arg[1]], e, documents)

(* C8 as stated: a failed backfill installs nothing and leaves the index   *)
(* map unchanged; a successful one replaces the index of that name by one  *)
(* that contains every current document.                                   *)
C8_CreateIndexContainsEveryDocument ==
    [][last'.op = "create_index" =>
          /\ CreateIndexFrame
          /\ last'.ok => \A i \in 1..Len(documents) :
                             PresentIn(indexes'[last'.arg[1]], documents[i])]_vars

(* C8, amended: a failed backfill installs nothing and leaves the index    *)
(* map unchanged; a successful one replaces the index of that name by one  *)
(* that has an entry under the key of every current document, naming that  *)
(* document (Unique, Multi) or the last document with that key (Single).   *)
C8_CreateIndexAllOrNothing ==
    [][last'.op = "create_index" =>
          /\ CreateIndexFrame
          /\ last'.ok => \A i \in 1..Len(documents) :
                             CoveredByLast(indexes'[last'.arg[1]], documents, i)]_vars

(* a backfill failed while an index of the same name was installed, and    *)
(* that index is still there                                               *)
C8_Witness ==
    /\ last.op = "create_index"
    /\ ~last.ok
    /\ last.arg[3] \in IndexTypes
    /\ last.arg[1] \in DOMAIN indexes
    /\ indexes[last.arg[1]].fields # last.arg[2]
    /\ Len(documents) > 0

(* C9: delete removes exactly the documents that matched when it was       *)
(* called, returns their number, keeps the others in order, removes each   *)
(* deleted document from every index, and leaves no matching document.     *)
C9_DeleteRemovesTheMatches ==
    [][last'.op = "delete" =>
          /\ last'.ok
          /\ last'.count = Cardinality(Matched(documents, last'.arg))
          /\ documents' = SelectSeq(documents, LAMBDA d : ~matches(last'.arg, d))
          /\ \A i \in Matched(documents, last'.arg), n \in DOMAIN indexes' :
                 ~PresentIn(indexes'[n], documents[i])
          /\ Matched(documents', last'.arg) = {}]_vars

(* C10: a successful update returns the number of documents that matched   *)
(* before it, applies the spec to exactly those, and leaves the other      *)
(* documents, the number of documents and their order unchanged.           *)
C10_SuccessfulUpdate ==
    [][(last'.op = "update" /\ last'.ok) =>
          /\ last'.count = Cardinality(Matched(documents, last'.arg[1]))
          /\ Len(documents') = Len(documents)
          /\ \A i \in 1..Len(documents) :
                 documents'[i] = IF matches(last'.arg[1], documents[i])
                                 THEN apply_update(documents[i], last'.arg[2]).doc
                                 ELSE documents[i]]_vars

(* an update changed one document and left another, which did not match,   *)
(* as it was                                                               *)
C10_Witness ==
    /\ last.op = "update"
    /\ last.ok
    /\ last.count = 1
    /\ last.arg = <<QEqOne, USet>>
    /\ Len(documents) = 2

(* C11: from_json(to_json(C)) succeeds and yields the same documents and,  *)
(* for every installed index, the same key-to-id associations as C had.    *)
C11_ReloadRoundTrip ==
    \A order \in Orders(DOMAIN indexes), orders \in DataOrders(documents) :
        /\ from_json_text(documents, indexes, order, to_json(documents, orders)).ok
        /\ from_json_text(documents, indexes, order, to_json(documents, orders)).documents
               = documents
        /\ \A n \in DOMAIN indexes :
               Entries(from_json_text(documents, indexes, order,
                                      to_json(documents, orders)).indexes[n])
                   = Entries(indexes[n])

(* Some operator of the update spec has an entry for the field id.         *)
TargetsId(upd) ==
    \E op \in {"$set", "$unset", "$inc", "$push", "$pull"} :
        "id" \in ObjKeys(OpEntries(upd, op))

(* C12: apply_update with a spec in which an operator targets id returns   *)
(* an error and leaves the document as it was, whatever else the spec      *)
(* names.                                                                  *)
C12_IdTargetRejectedUnchanged ==
    [][(last'.op = "apply_update" /\ TargetsId(last'.arg))
          => (~last'.ok /\ documents' = documents)]_vars

(* C13: the id of a document is immutable: no apply_update call, whether   *)
(* it succeeds or fails, and no collection update changes it.              *)
C13_IdImmutable ==
    [][/\ Len(documents') = Len(documents)
       /\ \A i \in 1..Len(documents) : documents'[i].id = documents[i].id]_vars

(* an update spec that names id after another field was applied, by        *)
(* apply_update and by a collection update: the other field was written    *)
C13_Witness ==
    /\ last.op \in {"apply_update", "update"}
    /\ ~last.ok
    /\ documents[1].id = "1"
    /\ documents[1].data = [a |-> Str("y")]
    /\ \/ last.arg = Upd1("$set", <<<<"a", Str("y")>>, <<"id", Str("z")>>>>)
       \/ last.arg = <<QAll, Upd1("$set", <<<<"a", Str("y")>>, <<"id", Str("z")>>>>)>>

(* C14: the key id is never stored in the field mapping of a document,     *)
(* whatever spec apply_update is given, dotted paths under id included.    *)
C14_NoIdKeyInData ==
    \A i \in 1..Len(documents) : "id" \notin DOMAIN documents[i].data

(* The documents a collection of the model can hold.                       *)
KeyDocs ==
    {Doc(id, data) : id \in {"1"} \cup UuidPool,
                     data \in DataInputs \cup {[a |-> Flt(n)] : n \in 1..MaxNum}}

(* The documents recorded in a Multi index under the key k.                *)
RecordedUnder(index, k) ==
    {d \in KeyDocs : /\ get_index_key(index, d).ok
                     /\ get_index_key(index, d).key = k
                     /\ d.id \in index.multi_index[k]}

(* remove_document of every document of the set, one after another.        *)
RECURSIVE RemoveAll(_, _)
RemoveAll(index, docs) ==
    IF docs = {} THEN index
    ELSE LET d == CHOOSE d \in docs : TRUE
         IN  RemoveAll(remove_document(index, d).index, docs \ {d})

(* C15: no key of a Multi index maps to an empty set of ids, and removing  *)
(* all the documents recorded under a key removes the key.                 *)
C15_NoEmptyMultiEntry ==
    \A n \in DOMAIN indexes :
        indexes[n].index_type = "multi" =>
            \A k \in DOMAIN indexes[n].multi_index :
                /\ indexes[n].multi_index[k] # {}
                /\ {d.id : d \in RecordedUnder(indexes[n], k)} = indexes[n].multi_index[k]
                /\ k \notin DOMAIN RemoveAll(indexes[n],
                                             RecordedUnder(indexes[n], k)).multi_index

(* delete removed the two documents that shared the key x of a Multi       *)
(* index, and the index has no key left                                    *)
C15_Witness ==
    /\ last.op = "delete"
    /\ last.ok
    /\ last.count = 2
    /\ last.arg = QEqualsX
    /\ \E n \in DOMAIN indexes :
           /\ indexes[n].index_type = "multi"
           /\ indexes[n].fields = <<"a">>
           /\ indexes[n].multi_index = EmptyMap

(* C16: for every document inserted into a fresh collection, alone or      *)
(* with others, find with the query {id: D.id} returns exactly that        *)
(* document, with its id and field values.                                 *)
C16_FindByIdReturnsTheDocument ==
    /\ \A i \in 1..Len(documents), uuids \in UuidInputs :
           find(documents, indexes, <<>>, QId(documents[i].id), uuids) = <<documents[i]>>
    /\ last.op = "find" =>
           last.count = Cardinality({i \in 1..Len(documents) :
                                        QId(documents[i].id) = last.arg})

(* the second of two inserted documents was found by its id                *)
C16_Witness ==
    /\ last.op = "find"
    /\ last.count = 1
    /\ Len(documents) = 2
    /\ last.arg = QId(documents[2].id)

(* C17: matches is the conjunction of the top-level entries of the query:  *)
(* it is true only when every entry, taken alone, holds for the document,  *)
(* an empty $or among them or not, in whatever order the entries come.     *)
C17_MatchesIsConjunction ==
    last.op = "matches" =>
        (last.ok <=> \A i \in 1..Len(last.arg) : matches(<<last.arg[i]>>, documents[1]))

(* One operator clause of a field condition, for the value the document    *)
(* has at the field (v, None when the field is absent).                    *)
Clause(op, operand, v) ==
    CASE op = "$eq" -> v.found /\ ValEq(v.value, operand)
      [] op = "$ne" -> ~v.found \/ ~ValEq(v.value, operand)
      [] op = "$gt" ->
            v.found /\ v.value.t = "num" /\ operand.t = "num" /\ v.value.n > operand.n
      [] op = "$gte" ->
            v.found /\ v.value.t = "num" /\ operand.t = "num" /\ v.value.n >= operand.n
      [] op = "$lt" ->
            v.found /\ v.value.t = "num" /\ operand.t = "num" /\ v.value.n < operand.n
      [] op = "$lte" ->
            v.found /\ v.value.t = "num" /\ operand.t = "num" /\ v.value.n <= operand.n
      [] op = "$in" ->
            v.found /\ \E i \in 1..Len(operand.items) : ValEq(operand.items[i], v.value)
      [] op = "$nin" ->
            ~v.found \/ \A i \in 1..Len(operand.items) : ~ValEq(operand.items[i], v.value)
      [] op = "$exists" -> v.found <=> operand.b
      [] op = "$regex" ->
            v.found /\ v.value.t = "str" /\ StrContains(v.value.s, operand.s)
      [] OTHER -> FALSE

(* C18: field_matches with an operator object is the conjunction of one    *)
(* clause per operator present: $eq, the comparisons, $in and $regex are   *)
(* false for an absent field, $ne and $nin true, the comparisons false     *)
(* unless both sides are numbers, $exists compares presence with its       *)
(* operand, and an unknown operator makes the match false.                 *)
C18_FieldMatchesIsConjunction ==
    last.op = "field_matches" =>
        (last.ok <=> \A i \in 1..Len(last.arg[2].pairs) :
                         Clause(last.arg[2].pairs[i][1], last.arg[2].pairs[i][2],
                                get(documents[1], last.arg[1])))

(* the first operator of the condition held for the field and the second   *)
(* did not                                                                 *)
C18_Witness ==
    /\ last.op = "field_matches"
    /\ ~last.ok
    /\ last.arg = <<"a", Cond2("$gte", Num(1), "$lt", Num(1))>>
    /\ documents[1].data = [a |-> Num(1)]

(* C19: {$not: c} matches iff c does not, {$and: [c1..cn]} iff every ci    *)
(* matches, and {$or: [c1..cn]} with n >= 1 iff some ci matches.           *)
C19_CombinatorsAreConnectives ==
    (last.op = "matches" /\ Len(last.arg) = 1) =>
        CASE last.arg[1][1] = "$not" ->
                last.ok <=> ~matches(last.arg[1][2].pairs, documents[1])
          [] last.arg[1][1] = "$and" ->
                last.ok <=> \A j \in 1..Len(last.arg[1][2].items) :
                                matches(last.arg[1][2].items[j].pairs, documents[1])
          [] last.arg[1][1] = "$or" /\ Len(last.arg[1][2].items) >= 1 ->
                last.ok <=> \E j \in 1..Len(last.arg[1][2].items) :
                                matches(last.arg[1][2].items[j].pairs, documents[1])
          [] OTHER -> TRUE

(* a $not of a condition the document matches was evaluated                *)
C19_Witness ==
    /\ last.op = "matches"
    /\ ~last.ok
    /\ last.arg = <<<<"$not", Obj(<<<<"a", Str("x")>>>>)>>>>
    /\ documents[1].data = [a |-> Str("x")]

(* The update spec is {$set: {p: v}} for one path p other than id.         *)
IsSetOfOnePath(upd) ==
    /\ Len(upd.pairs) = 1
    /\ upd.pairs[1][1] = "$set"
    /\ Len(upd.pairs[1][2].pairs) = 1
    /\ upd.pairs[1][2].pairs[1][1] # "id"

(* C20: after apply_update({$set: {p: v}}) for a dotted path p other than  *)
(* id, get(p) returns v: the objects on the way are created, and a value   *)
(* on the way that is no object is replaced by one.                        *)
C20_SetThenGet ==
    [][(last'.op = "apply_update" /\ IsSetOfOnePath(last'.arg))
          => /\ last'.ok
             /\ get(documents'[1], last'.arg.pairs[1][2].pairs[1][1]).found
             /\ ValEq(get(documents'[1], last'.arg.pairs[1][2].pairs[1][1]).value,
                      last'.arg.pairs[1][2].pairs[1][2])]_vars

(* a.b.c was set in a document whose a.b was a string                      *)
C20_Witness ==
    /\ last.op = "apply_update"
    /\ last.arg = Upd1("$set", <<<<"a.b.c", Str("y")>>>>)
    /\ documents[1].data =
           [a |-> Obj(<<<<"b", Obj(<<<<"c", Str("y")>>>>)>>>>)]

(* An update spec that is one $unset of one field other than id.           *)
IsUnsetOfOneField(upd) ==
    /\ Len(upd.pairs) = 1
    /\ upd.pairs[1][1] = "$unset"
    /\ Len(upd.pairs[1][2].pairs) = 1
    /\ upd.pairs[1][2].pairs[1][1] # "id"

UnsetField(upd) == upd.pairs[1][2].pairs[1][1]

(* C21 as stated: after apply_update({$unset: {f: ...}}) for a field name  *)
(* f other than id, get(f) returns not found, whatever f is.               *)
C21_UnsetThenGet ==
    [][(last'.op = "apply_update" /\ IsUnsetOfOneField(last'.arg))
          => /\ last'.ok
             /\ ~get(documents'[1], UnsetField(last'.arg)).found]_vars

(* C21: after apply_update({$unset: {f: ...}}) for a field name f other    *)
(* than id that has no dot in it, get(f) returns not found; $unset removes *)
(* the top-level key f and nothing else.                                   *)
C21_UnsetTopLevelThenGet ==
    [][(/\ last'.op = "apply_update"
        /\ IsUnsetOfOneField(last'.arg)
        /\ Len(Split(UnsetField(last'.arg))) = 1)
          => /\ last'.ok
             /\ ~get(documents'[1], UnsetField(last'.arg)).found
             /\ documents'[1] =
                    Doc(documents[1].id,
                        MapRemove(documents[1].data, UnsetField(last'.arg)))]_vars

(* field a was unset in a document that held more than field a            *)
C21_Witness ==
    /\ last.op = "apply_update"
    /\ last.arg = Upd1("$unset", <<<<"a", Str("")>>>>)
    /\ last.ok
    /\ DOMAIN documents[1].data = {"id"}

(* The update spec {$inc: {f: n}}.                                         *)
IncBy(f, n) == Upd1("$inc", <<<<f, Num(n)>>>>)

IncAmounts == (-MaxNum)..MaxNum

(* Field f is absent from the document or holds a number.                  *)
AbsentOrNumeric(doc, f) == f \notin DOMAIN doc.data \/ doc.data[f].t = "num"

(* C22: for a field f that is absent or numeric, $inc by a and then $inc   *)
(* by b makes the same document as one $inc by a + b, an absent field      *)
(* counting as 0: both succeed and f holds the sum as a float.             *)
C22_IncIsAdditive ==
    \A f \in {"a", "n"}, a \in IncAmounts, b \in IncAmounts :
        (Len(documents) = 1 /\ AbsentOrNumeric(documents[1], f))
            => LET first == apply_update(documents[1], IncBy(f, a))
                   second == apply_update(first.doc, IncBy(f, b))
                   once == apply_update(documents[1], IncBy(f, a + b))
                   start == IF f \in DOMAIN documents[1].data
                            THEN documents[1].data[f].n ELSE 0
               IN  /\ first.ok /\ second.ok /\ once.ok
                   /\ second.doc = once.doc
                   /\ once.doc.data[f] = Flt(start + a + b)

(* a was incremented down to -1 from an absent field or through 0         *)
C22_Witness ==
    /\ last.op = "apply_update"
    /\ last.arg = IncBy("a", -1)
    /\ last.ok
    /\ documents[1].data = [a |-> Flt(-1)]

(* The document lacks a field of the index.                                *)
LacksIndexedField(index, doc) ==
    \E i \in 1..Len(index.fields) : ~get(doc, index.fields[i]).found

(* The key with "null" in the place of every field the document lacks.     *)
NullKey(index, doc) ==
    JoinKey([i \in 1..Len(index.fields) |-> KeyPart(get(doc, index.fields[i]))], 1)

(* C23: for a document that lacks a field of an installed index, single-   *)
(* field or compound, the key has "null" for that field, remove_document   *)
(* succeeds, and add_document to the emptied index succeeds and records    *)
(* the document under that key.                                            *)
C23_MissingFieldIsNull ==
    \A n \in DOMAIN indexes :
        \A d \in KeyDocs :
            LacksIndexedField(indexes[n], d)
                => /\ get_index_key(indexes[n], d).ok
                   /\ get_index_key(indexes[n], d).key = NullKey(indexes[n], d)
                   /\ remove_document(indexes[n], d).ok
                   /\ add_document(clear(indexes[n]), d).ok
                   /\ Entries(add_document(clear(indexes[n]), d).index)
                          = {<<NullKey(indexes[n], d), d.id>>}

(* The entries of the index that name no current document with that key.  *)
Stale(index, docs) == {e \in Entries(index) : ~Current(index, e, docs)}

(* C24: update takes a document out of every index under the key of its    *)
(* old field values before apply_update changes them and puts it back      *)
(* under the key of the new ones afterwards, so no update, completed or    *)
(* stopped by an error, leaves an index entry keyed by a value its         *)
(* document no longer has: every entry that names no current document      *)
(* with that key was such an entry before the call.                        *)
C24_UpdateLeavesNoOldKey ==
    [][last'.op = "update"
          => \A n \in DOMAIN indexes' :
                 Stale(indexes'[n], documents') \subseteq Stale(indexes[n], documents)]_vars

(* an update moved the document from the key 1.0 to the key x of an index  *)
C24_Witness ==
    /\ last.op = "update"
    /\ last.arg = <<QEqOne, USet>>
    /\ last.ok
    /\ last.count = 1
    /\ \E n \in DOMAIN indexes :
           \E i \in 1..Len(documents) :
               /\ Len(indexes[n].fields) = 1
               /\ <<"x", documents[i].id>> \in Entries(indexes[n])
               /\ Stale(indexes[n], documents) = {}

(* An update spec that is one $pull on one field other than id.            *)
IsPullOfOneField(upd) ==
    /\ Len(upd.pairs) = 1
    /\ upd.pairs[1][1] = "$pull"
    /\ Len(upd.pairs[1][2].pairs) = 1
    /\ upd.pairs[1][2].pairs[1][1] # "id"

(* The element satisfies the predicate as Query matches a condition: for   *)
(* an operator object every operator present holds of it, for any other    *)
(* value it equals the value.                                              *)
Satisfies(item, predicate) ==
    IF predicate.t = "obj" /\ \E i \in 1..Len(predicate.pairs) :
                                 predicate.pairs[i][1] \in ItemOps
    THEN \A i \in 1..Len(predicate.pairs) :
             Clause(predicate.pairs[i][1], predicate.pairs[i][2], Some(item))
    ELSE ValEq(item, predicate)

(* C25: $pull removes from the named array field exactly the elements that *)
(* satisfy the predicate, an operator object being the conjunction of its  *)
(* operators, keeps the others in their order, and leaves the document     *)
(* unchanged when the field is absent or no array.                         *)
C25_PullRemovesTheMatches ==
    [][(last'.op = "apply_update" /\ IsPullOfOneField(last'.arg))
          => LET f == last'.arg.pairs[1][2].pairs[1][1]
                 predicate == last'.arg.pairs[1][2].pairs[1][2]
                 data == documents[1].data
             IN  /\ last'.ok
                 /\ IF f \in DOMAIN data /\ data[f].t = "arr"
                    THEN documents'[1] =
                             Doc(documents[1].id,
                                 MapPut(data, f,
                                        Arr(SelectSeq(data[f].items,
                                                      LAMBDA item :
                                                          ~Satisfies(item, predicate)))))
                    ELSE documents'[1] = documents[1]]_vars

(* The operators in the order apply_update runs them.                      *)
OperatorOrder == <<"$set", "$unset", "$inc", "$push", "$pull">>

(* The operators of the update spec from the i-th of OperatorOrder on,     *)
(* each as an update of its own, until one returns an error.               *)
RECURSIVE InOrder(_, _, _)
InOrder(r, upd, i) ==
    IF i > Len(OperatorOrder) \/ ~r.ok THEN r
    ELSE InOrder(apply_update(r.doc, Upd1(OperatorOrder[i],
                                          OpEntries(upd, OperatorOrder[i]))),
                 upd, i + 1)

(* The update spec with its operators written in the opposite order.       *)
Reversed(upd) == Obj([i \in 1..Len(upd.pairs) |-> upd.pairs[Len(upd.pairs) + 1 - i]])

(* C26: apply_update runs the operators of the spec in the order $set,     *)
(* $unset, $inc, $push, $pull, whatever their order in the spec, and stops *)
(* at the first that fails: it returns the error and the document keeps    *)
(* what the operators before it did.                                       *)
C26_FixedOperatorOrder ==
    [][last'.op = "apply_update"
          => /\ last'.ok = InOrder(Ok(documents[1]), last'.arg, 1).ok
             /\ documents'[1] = InOrder(Ok(documents[1]), last'.arg, 1).doc
             /\ apply_update(documents[1], Reversed(last'.arg))
                    = apply_update(documents[1], last'.arg)]_vars

(* $inc stands first in the spec and failed on the string $set had written *)
C26_Witness ==
    /\ last.op = "apply_update"
    /\ last.arg = Upd2("$inc", <<<<"a", Num(1)>>>>, "$set", <<<<"a", Str("y")>>>>)
    /\ ~last.ok
    /\ documents[1].data = [a |-> Str("y")]

(* C27: in a Single or Unique index remove_document deletes the entry of   *)
(* the document's key only when the id it records is the document's, and   *)
(* leaves the index as it is otherwise; add_document to a Single index     *)
(* never fails on an occupied key, and the key then maps to the document   *)
(* added last.                                                             *)
C27_SingleEntryOwnership ==
    \A n \in DOMAIN indexes :
        \A d \in KeyDocs :
            (indexes[n].index_type \in {"single", "unique"}
                 /\ get_index_key(indexes[n], d).ok)
                => LET index == indexes[n]
                       key == get_index_key(index, d).key
                       removed == remove_document(index, d)
                       added == add_document(index, d)
                   IN  /\ removed.ok
                       /\ removed.index =
                              IF key \in DOMAIN index.single_index
                                     /\ index.single_index[key] = d.id
                              THEN [index EXCEPT !.single_index = MapRemove(@, key)]
                              ELSE index
                       /\ index.index_type = "single"
                              => /\ added.ok
                                 /\ added.index =
                                        [index EXCEPT
                                           !.single_index = MapPut(@, key, d.id)]

(* two documents have the key x of a Single index, which records the one   *)
(* inserted last                                                           *)
C27_Witness ==
    /\ last.op = "insert"
    /\ last.ok
    /\ Len(documents) = 2
    /\ documents[1].id # documents[2].id
    /\ \E n \in DOMAIN indexes :
           /\ indexes[n].index_type = "single"
           /\ get_index_key(indexes[n], documents[1]).ok
           /\ get_index_key(indexes[n], documents[1]).key = "x"
           /\ get_index_key(indexes[n], documents[2]).ok
           /\ get_index_key(indexes[n], documents[2]).key = "x"
           /\ indexes[n].single_index = [x |-> documents[2].id]

(* C28: while a Unique index is installed no two documents of the          *)
(* collection with different ids have the same key of that index.          *)
C28_UniqueKeysDistinct ==
    \A n \in DOMAIN indexes :
        indexes[n].index_type = "unique"
            => \A i \in 1..Len(documents) :
                   \A j \in (i + 1)..Len(documents) :
                       (/\ documents[i].id # documents[j].id
                        /\ get_index_key(indexes[n], documents[i]).ok
                        /\ get_index_key(indexes[n], documents[j]).ok)
                           => get_index_key(indexes[n], documents[i]).key
                                  # get_index_key(indexes[n], documents[j]).key

(* C29: from every reachable state delete returns no error and does not    *)
(* stop part-way: it takes every document that matched out of the          *)
(* collection.                                                             *)
C29_DeleteNeverFails ==
    [][last'.op = "delete"
          => /\ last'.ok
             /\ Len(documents')
                    = Len(documents) - Cardinality(Matched(documents, last'.arg))]_vars

(* Documents whose indexed values differ in the ways the key encoding has  *)
(* to keep apart: a number and the string of its digits, null and the      *)
(* string "null", and strings that hold the separator of a compound key.   *)
EncodingDocs ==
    {Doc("1", [a |-> Num(1)]), Doc("2", [a |-> Str("1")]),
     Doc("3", [a |-> Null]), Doc("4", [a |-> Str("null")]),
     Doc("5", [a |-> Str("a|b"), b |-> Str("c")]),
     Doc("6", [a |-> Str("a"), b |-> Str("b|c")])}

(* What doc.get returns for the fields of the index, in their order.       *)
IndexedValues(index, doc) == [i \in 1..Len(index.fields) |-> get(doc, index.fields[i])]

NewCollection(n) == [name |-> n, documents |-> <<>>, indexes |-> EmptyMap]

(* collection.clone(): a Collection of its own with the same name,         *)
(* documents and indexes. collection returns a Collection by value, whose  *)
(* fields are owned, so what it returns shares nothing with the Collection *)
(* in the map.                                                             *)
CloneCollection(c) ==
    [name |-> c.name, documents |-> c.documents, indexes |-> c.indexes]

(* Database::collection: the map afterwards and the Collection returned.   *)
collection(colls, n) ==
    IF n \in DOMAIN colls
    THEN [collections |-> colls, returned |-> CloneCollection(colls[n])]
    ELSE [collections |-> MapPut(colls, n, CloneCollection(NewCollection(n))),
          returned |-> NewCollection(n)]

(* Database::to_json: one entry per collection of the map, in the order    *)
(* the map is iterated, with the documents Collection::to_json gives.      *)
database_to_json(colls, order, orders) ==
    [i \in 1..Len(order) |->
        <<order[i], to_json(colls[order[i]].documents, orders[order[i]])>>]

(* The iteration orders of the data of the documents, per collection.      *)
CollectionDataOrders(colls) ==
    {os \in [DOMAIN colls -> UNION {DataOrders(colls[n].documents) : n \in DOMAIN colls}] :
        \A n \in DOMAIN colls : os[n] \in DataOrders(colls[n].documents)}

DbNames == {"c", "d"}

(* Database::new(); the caller holds no Collection of the database yet.    *)
DbInit == Init

DbCollection ==
    \E n \in DbNames :
        /\ documents' = collection(collections, n).returned.documents
        /\ indexes' = collection(collections, n).returned.indexes
        /\ collection_name' = collection(collections, n).returned.name
        /\ collections' = collection(collections, n).collections
        /\ last' = [op |-> "collection", arg |-> n, ok |-> TRUE, count |-> 0]

DbToJson ==
    \E order \in Orders(DOMAIN collections), orders \in CollectionDataOrders(collections) :
        /\ last' = [op |-> "to_json", arg |-> database_to_json(collections, order, orders),
                    ok |-> TRUE, count |-> 0]
        /\ UNCHANGED <<documents, indexes, collection_name, collections>>

(* insert, update, delete and create_index on the Collection that          *)
(* Database::collection returned.                                          *)
DbInsert ==
    /\ collection_name \in DOMAIN collections
    /\ Insert

DbUpdate ==
    /\ collection_name \in DOMAIN collections
    /\ Update

DbDelete ==
    /\ collection_name \in DOMAIN collections
    /\ Delete

DbCreateIndex ==
    /\ collection_name \in DOMAIN collections
    /\ CreateIndex

DbNext ==
    \/ DbCollection
    \/ DbToJson
    \/ DbInsert
    \/ DbUpdate
    \/ DbDelete
    \/ DbCreateIndex

DbSpec == DbInit /\ [][DbNext]_vars

(* C31: the Database owns its collections. collection(name) creates the    *)
(* collection on first use and returns the existing one afterwards, so a   *)
(* later collection(name) returns the Collection as the insert, update,    *)
(* delete and create_index calls on the one obtained before left it, and   *)
(* to_json of the Database shows its documents.                            *)
C31_DatabaseOwnsCollections ==
    [][/\ last'.op = "collection"
          => IF last'.arg \in DOMAIN collections
             THEN /\ collections' = collections
                  /\ collection_name = last'.arg
                         => (documents' = documents /\ indexes' = indexes)
             ELSE /\ DOMAIN collections' = DOMAIN collections \cup {last'.arg}
                  /\ documents' = <<>>
                  /\ indexes' = EmptyMap
       /\ (last'.op = "to_json" /\ collection_name \in DOMAIN collections)
          => \E i \in 1..Len(last'.arg) :
                 /\ last'.arg[i][1] = collection_name
                 /\ last'.arg[i][2] \in {to_json(documents, os) :
                                            os \in DataOrders(documents)}]_vars

====
